---- MODULE Spec2Model ----
(***************************************************************************)
(* emu-log (src/emu_log.go): a scheduler loop (main) that once per tick    *)
(* starts one goroutine per bureau (iterBureaus); every goroutine          *)
(* (Bureau.iterVehicles) queries the table emu_qrcode for one QR code per  *)
(* vehicle, asks the bureau's web API for the train number (Bureau.TrainNo *)
(* over Bureau.Info) and records it with INSERT OR IGNORE in emu_log.      *)
(*                                                                         *)
(* Time is counted in minutes from the local midnight that begins day 0.   *)
(* The local zone has whole-hour UTC offsets; `zone` says on which day, if *)
(* any, the offset changes (the day is then 23 or 25 hours long).          *)
(***************************************************************************)
EXTENDS Integers, Sequences, FiniteSets, TLC

VARIABLES
    emu_qrcode,   \* table emu_qrcode: sequence of rows in rowid order
    emu_log,      \* table emu_log: sequence of rows in rowid order
    log0,         \* the rows emu_log held when the process started
    zone,         \* the local time zone: [day, len], day = -1: no offset change
    clock,        \* what time.Now() returns
    alive,        \* FALSE once the process has exited
    exit,         \* why it exited: "none", "fatal" (os.Exit), "panic"
    dbErr,        \* the storage call that failed last: "none", "query", ...
    mainPc,       \* position of main: "loop", "spawn", "wait", "sleep"
    now,          \* main's local variable now
    nextRun,      \* main's local variable nextRun
    i,            \* iterBureaus' loop index into bureaus
    round,        \* number of rounds started
    wg,           \* counter of the sync.WaitGroup
    goroutines,   \* goroutines[b]: live iterVehicles goroutines of bureau b
    pc,           \* pc[b]: position of the goroutine of bureau b
    rows,         \* rows[b]: rows of the cursor rows.Next() has yet to yield
    emuNo,        \* emuNo[b], qrCode[b]: the columns rows.Scan stored
    qrCode,
    info,         \* info[b], infoErr[b]: what this.Info returned in TrainNo
    infoErr,
    trainNo,      \* trainNo[b], date[b]: what b.TrainNo returned
    date,
    lastExec,     \* lastExec[b]: what the last step at db.Exec did
    sent          \* sent[b]: the calls of b.TrainNo in this run of iterVehicles

vars == <<emu_qrcode, emu_log, log0, zone, clock, alive, exit, dbErr, mainPc,
          now, nextRun, i, round, wg, goroutines, pc, rows, emuNo, qrCode,
          info, infoErr, trainNo, date, lastExec, sent>>

mainVars   == <<mainPc, now, nextRun, i, round>>
workerVars == <<rows, emuNo, qrCode, info, infoErr, trainNo, date, lastExec, sent>>
exitVars   == <<alive, exit, dbErr>>

-----------------------------------------------------------------------------
(* Bounds of the model *)

MaxRounds == 2

-----------------------------------------------------------------------------
(* Constants of the program; durations are in minutes *)

Hour           == 60
day            == 24 * Hour
repeatInterval == Hour
startTime      == 5 * Hour
endTime        == 24 * Hour

\* bureaus[k].Code
bureaus == <<"H", "P">>
Bureaus == {bureaus[k] : k \in DOMAIN bureaus}

-----------------------------------------------------------------------------
(* Local time: time.Local, time.Date, Time.Truncate, Time.Format *)

\* The zones the process may run in. checkLocalTimezone expects UTC+8, which
\* never changes its offset; in any other zone it warns and carries on.
FixedZone == [day |-> -1, len |-> day]
ShiftZones == {[day |-> 0, len |-> day + Hour], [day |-> 0, len |-> day - Hour]}

\* Length of local day d, and the instant of its midnight
DayLen(d) == IF d = zone.day THEN zone.len ELSE day
DayStart(d) == d * day + (IF zone.day >= 0 /\ d > zone.day THEN zone.len - day ELSE 0)

\* The local calendar day an instant t falls in: now.Year(), now.Month(), now.Day()
DayOf(t) == CHOOSE d \in 0..(t \div (day - Hour)) : DayStart(d) <= t /\ t < DayStart(d + 1)

\* time.Date(now.Year(), now.Month(), now.Day(), 0, 0, 0, 0, time.Local)
Today(t) == DayStart(DayOf(t))

\* The reading of a local wall clock at instant t, in minutes after 00:00; an
\* offset change takes effect at 02:00 of its day.
OffsetChangeAt == 2 * Hour
WallClock(t) ==
    LET e == t - Today(t)
    IN  IF e < OffsetChangeAt THEN e ELSE e - (DayLen(DayOf(t)) - day)

\* t.Truncate(d): rounds down to a multiple of d since the zero time
Truncate(t, d) == t - (t % d)

\* t.Format("2006-01-02") for the days the model runs through
\* (day 0 is 2024-03-09), and the same for t.UTC() in the zone UTC+8
DateNames == <<"2024-03-08", "2024-03-09", "2024-03-10", "2024-03-11", "2024-03-12">>
FormatUTC(t) == DateNames[DayOf(t) + (IF t - Today(t) < 8 * Hour THEN 1 ELSE 2)]
Format(t) == DateNames[DayOf(t) + 2]

\* The body of main's loop down to line 136: the value nextRun gets for now = t
NextRunNoWindow(t) == Truncate(t, repeatInterval) + repeatInterval
NextRunRoundedDown(t) ==
    LET today == Today(t)
    IN  IF t < today + startTime THEN today + startTime
        ELSE IF t > today + endTime THEN today + day
        ELSE Truncate(t, repeatInterval)
NextRun(t) ==
    LET today == Today(t)
    IN  IF t < today + startTime THEN today + startTime
        ELSE IF t > today + endTime THEN today + day
        ELSE Truncate(t, repeatInterval) + repeatInterval

-----------------------------------------------------------------------------
(* Storage: the two tables of emu_log.db *)

\* The vehicle numbers of the model, in the order of SQLite's text comparison
EmuNoOrder == <<"CRH1-001", "CRH1-002", "CRH5-003">>
Rank(e) == CHOOSE k \in DOMAIN EmuNoOrder : EmuNoOrder[k] = e

QrRow(e, b, q) == [emu_no |-> e, emu_bureau |-> b, emu_qrcode |-> q]
LogRecord(d, e, t) == [date |-> d, emuNo |-> e, trainNo |-> t]

\* Contents of emu_qrcode the process may find: the table is filled by another
\* program and is UNIQUE(emu_bureau, emu_qrcode).
SeedTable == <<QrRow("CRH1-001", "H", "PQ0001")>>
MixedTable ==
    << QrRow("CRH1-002", "H", "PQ0002"),
       QrRow("CRH1-001", "H", "PQ0001"),
       QrRow("CRH1-001", "P", "QR0001"),
       QrRow("CRH1-001", "H", "PQ0009") >>
QrTables == {SeedTable, MixedTable}

\* Contents of emu_log the process may find at startup
OldLogs == {<<>>, <<LogRecord("2024-03-09", "CRH1-001", "G101")>>}

\* SELECT emu_no, emu_qrcode, MIN(rowid) FROM emu_qrcode WHERE emu_bureau = b
\* GROUP BY emu_no ORDER BY emu_no ASC
RowIds(b, e) == {k \in DOMAIN emu_qrcode :
                    emu_qrcode[k].emu_bureau = b /\ emu_qrcode[k].emu_no = e}
MinRowId(b, e) == CHOOSE k \in RowIds(b, e) : \A m \in RowIds(b, e) : k <= m
GroupRow(b, e) ==
    [emu_no |-> e, emu_qrcode |-> emu_qrcode[MinRowId(b, e)].emu_qrcode,
     id |-> MinRowId(b, e)]
RECURSIVE OrderByEmuNoDesc(_, _)
OrderByEmuNoDesc(b, S) ==
    IF S = {} THEN <<>>
    ELSE LET e == CHOOSE x \in S : \A y \in S : Rank(x) >= Rank(y)
         IN  <<GroupRow(b, e)>> \o OrderByEmuNoDesc(b, S \ {e})
RECURSIVE OrderByEmuNo(_, _)
OrderByEmuNo(b, S) ==
    IF S = {} THEN <<>>
    ELSE LET e == CHOOSE x \in S : \A y \in S : Rank(x) <= Rank(y)
         IN  <<GroupRow(b, e)>> \o OrderByEmuNo(b, S \ {e})
Query(b) ==
    OrderByEmuNo(b, {emu_qrcode[k].emu_no : k \in {m \in DOMAIN emu_qrcode :
                                                emu_qrcode[m].emu_bureau = b}})

\* INSERT OR IGNORE INTO emu_log VALUES (date, emuNo, trainNo), under
\* UNIQUE(date, emu_no, train_no)
Insert(table, rec) == Append(table, rec)
InsertOrIgnore(table, rec) ==
    IF \E k \in DOMAIN table : table[k] = rec THEN table ELSE Append(table, rec)

-----------------------------------------------------------------------------
(* The bureaus' web APIs: Bureau.Info and Bureau.TrainNo *)

\* A value of a JsonObject under a key: absent (the lookup yields nil), a
\* number, or a string
Absent == [kind |-> "absent", str |-> ""]
Number == [kind |-> "number", str |-> ""]
String(s) == [kind |-> "string", str |-> s]
IsString(v) == v.kind = "string"

NoInfo == [trainName |-> Absent, TrainnoId |-> Absent, TrainnoDate |-> Absent]
InfoH(name) == [NoInfo EXCEPT !.trainName = name]
InfoP(id, d) == [NoInfo EXCEPT !.TrainnoId = id, !.TrainnoDate = d]

\* What Info may return with err == nil: the decoded data of the response
Responses(b) ==
    IF b = "H"
    THEN {InfoH(v) : v \in {Absent, Number, String(""), String("G101")}}
    ELSE {InfoP(Absent, String("2024-03-09")), InfoP(String("G101"), Number),
          InfoP(String(""), String("2024-03-09")),
          InfoP(String("G101"), String("2024-03-09"))}

\* What Info may return: (info, nil), or (nil, err) for a request that failed
\* or a body that did not decode
Nil == "nil"
InfoResults(b) ==
    {[info |-> r, err |-> Nil] : r \in Responses(b)}
        \cup {[info |-> NoInfo, err |-> e] : e \in {"network", "decode"}}

\* b.TrainNo given what this.Info returned, called at instant t. A type
\* assertion x.(string) on a value that is no string panics.
Returned(tn, d, e) == [panic |-> FALSE, trainNo |-> tn, date |-> d, err |-> e]
Panicked == [panic |-> TRUE, trainNo |-> "", date |-> "", err |-> Nil]
TrainNoSwapped(b, r, t) ==
    IF r.err # Nil THEN Returned("", "", r.err)
    ELSE IF b = "H"
    THEN IF ~IsString(r.info.trainName) THEN Panicked
         ELSE Returned(Format(t), r.info.trainName.str, Nil)
    ELSE IF ~IsString(r.info.TrainnoId) \/ ~IsString(r.info.TrainnoDate) THEN Panicked
         ELSE Returned(r.info.TrainnoDate.str, r.info.TrainnoId.str, Nil)
TrainNo(b, r, t) ==
    IF r.err # Nil THEN Returned("", "", r.err)
    ELSE IF b = "H"
    THEN IF ~IsString(r.info.trainName) THEN Panicked
         ELSE Returned(r.info.trainName.str, Format(t), Nil)
    ELSE IF ~IsString(r.info.TrainnoId) \/ ~IsString(r.info.TrainnoDate) THEN Panicked
         ELSE Returned(r.info.TrainnoId.str, r.info.TrainnoDate.str, Nil)

-----------------------------------------------------------------------------
(* The state after checkLocalTimezone, checkInternetConnection, checkDatabase *)

\* Local times of day at which the process may be started, and the step by
\* which the model's clock moves on while a goroutine sleeps or waits for a
\* bureau's answer
Tick == repeatInterval \div 2
StartTimes == {3 * Hour, startTime, 12 * Hour + Tick, 23 * Hour + Tick}

InitIn(zones) ==
    /\ emu_qrcode \in QrTables
    /\ log0 \in OldLogs
    /\ emu_log = log0
    /\ zone \in zones
    /\ clock \in StartTimes
    /\ alive = TRUE
    /\ exit = "none"
    /\ dbErr = "none"
    /\ mainPc = "loop"
    /\ now = clock
    /\ nextRun = clock
    /\ i = 1
    /\ round = 0
    /\ wg = 0
    /\ goroutines = [b \in Bureaus |-> 0]
    /\ pc = [b \in Bureaus |-> "idle"]
    /\ rows = [b \in Bureaus |-> <<>>]
    /\ emuNo = [b \in Bureaus |-> ""]
    /\ qrCode = [b \in Bureaus |-> ""]
    /\ info = [b \in Bureaus |-> NoInfo]
    /\ infoErr = [b \in Bureaus |-> Nil]
    /\ trainNo = [b \in Bureaus |-> ""]
    /\ date = [b \in Bureaus |-> ""]
    /\ lastExec = [b \in Bureaus |-> "none"]
    /\ sent = [b \in Bureaus |-> <<>>]

Init == InitIn({FixedZone})

-----------------------------------------------------------------------------
(* Process exit *)

\* checkFatal(err) with err != nil: log.Fatal ends the process (os.Exit(1))
Fatal(call) ==
    /\ alive' = FALSE
    /\ exit' = "fatal"
    /\ dbErr' = call

\* A panic no one recovers from ends the process, too
Panic ==
    /\ alive' = FALSE
    /\ exit' = "panic"
    /\ UNCHANGED dbErr

-----------------------------------------------------------------------------
(* main: the scheduler loop *)

\* Lines 125-136: read the clock and compute nextRun
ComputeNextRun ==
    /\ alive /\ mainPc = "loop" /\ round < MaxRounds
    /\ now' = clock
    /\ nextRun' = NextRun(clock)
    /\ round' = round + 1
    /\ i' = 1
    /\ mainPc' = "spawn"
    /\ UNCHANGED <<emu_qrcode, emu_log, log0, zone, clock, wg, goroutines, pc>>
    /\ UNCHANGED <<workerVars, exitVars>>

\* iterBureaus, lines 144-147: wg.Add(1); go bureaus[i].iterVehicles()
Spawn ==
    /\ alive /\ mainPc = "spawn"
    /\ LET b == bureaus[i]
       IN  /\ wg' = wg + 1
           /\ goroutines' = [goroutines EXCEPT ![b] = @ + 1]
           /\ pc' = [pc EXCEPT ![b] = "query"]
           /\ emuNo' = [emuNo EXCEPT ![b] = ""]
           /\ qrCode' = [qrCode EXCEPT ![b] = ""]
           /\ info' = [info EXCEPT ![b] = NoInfo]
           /\ infoErr' = [infoErr EXCEPT ![b] = Nil]
           /\ trainNo' = [trainNo EXCEPT ![b] = ""]
           /\ date' = [date EXCEPT ![b] = ""]
           /\ lastExec' = [lastExec EXCEPT ![b] = "none"]
           /\ sent' = [sent EXCEPT ![b] = <<>>]
    /\ i' = i + 1
    /\ mainPc' = IF i = Len(bureaus) THEN "wait" ELSE "spawn"
    /\ UNCHANGED <<emu_qrcode, emu_log, log0, zone, clock, now, nextRun, round>>
    /\ UNCHANGED <<rows, exitVars>>

\* iterBureaus, line 148: wg.Wait() returns once the counter is zero
WaitReturnsAtOnce == TRUE
WaitReturns == wg = 0

Wait ==
    /\ alive /\ mainPc = "wait"
    /\ WaitReturns
    /\ mainPc' = "sleep"
    /\ UNCHANGED <<emu_qrcode, emu_log, log0, zone, clock, now, nextRun, i, round,
                   wg, goroutines, pc>>
    /\ UNCHANGED <<workerVars, exitVars>>

\* Line 139: time.Sleep(time.Until(nextRun)) returns at nextRun, or at once
\* when nextRun is not in the future
Sleep ==
    /\ alive /\ mainPc = "sleep"
    /\ clock' = IF nextRun > clock THEN nextRun ELSE clock
    /\ mainPc' = "loop"
    /\ UNCHANGED <<emu_qrcode, emu_log, log0, zone, now, nextRun, i, round,
                   wg, goroutines, pc>>
    /\ UNCHANGED <<workerVars, exitVars>>

-----------------------------------------------------------------------------
(* Bureau.iterVehicles: the goroutine of bureau b *)

\* Lines 155-162: db.Query and checkFatal(err)
QueryRowsConsuming(b) ==
    /\ alive /\ pc[b] = "query"
    /\ \/ /\ rows' = [rows EXCEPT ![b] = Query(b)]
          /\ pc' = [pc EXCEPT ![b] = "next"]
          /\ UNCHANGED exitVars
       \/ /\ Fatal("query")
          /\ UNCHANGED <<rows, pc>>
    /\ emu_qrcode' = IF pc'[b] = "next"
                      THEN SelectSeq(emu_qrcode, LAMBDA r : r.emu_bureau # b)
                      ELSE emu_qrcode
    /\ UNCHANGED <<emu_log, log0, zone, clock, wg, goroutines,
                   emuNo, qrCode, info, infoErr, trainNo, date, lastExec, sent>>
    /\ UNCHANGED mainVars

QueryRows(b) ==
    /\ alive /\ pc[b] = "query"
    /\ \/ /\ rows' = [rows EXCEPT ![b] = Query(b)]
          /\ pc' = [pc EXCEPT ![b] = "next"]
          /\ UNCHANGED exitVars
       \/ /\ Fatal("query")
          /\ UNCHANGED <<rows, pc>>
    /\ UNCHANGED <<emu_qrcode, emu_log, log0, zone, clock, wg, goroutines,
                   emuNo, qrCode, info, infoErr, trainNo, date, lastExec, sent>>
    /\ UNCHANGED mainVars

\* Lines 165-167 and 179: rows.Next() and rows.Scan. Next yields the next row,
\* or returns false: at the end of the rows, and also when stepping the cursor
\* fails (the error is kept for rows.Err(), which iterVehicles does not call).
\* When Next returns false the loop ends, "job done" is logged and the
\* deferred wg.Done() runs. The variables declared in the loop body are new
\* in every iteration.
JobDone(b) ==
    /\ pc' = [pc EXCEPT ![b] = "idle"]
    /\ goroutines' = [goroutines EXCEPT ![b] = @ - 1]
    /\ wg' = wg - 1
    /\ UNCHANGED <<rows, emuNo, qrCode, alive, exit>>

RowsNextNoDelay(b) ==
    /\ alive /\ pc[b] = "next"
    /\ \/ /\ rows[b] # <<>>
          /\ emuNo' = [emuNo EXCEPT ![b] = Head(rows[b]).emu_no]
          /\ qrCode' = [qrCode EXCEPT ![b] = Head(rows[b]).emu_qrcode]
          /\ rows' = [rows EXCEPT ![b] = Tail(@)]
          /\ info' = [info EXCEPT ![b] = NoInfo]
          /\ infoErr' = [infoErr EXCEPT ![b] = Nil]
          /\ trainNo' = [trainNo EXCEPT ![b] = ""]
          /\ date' = [date EXCEPT ![b] = ""]
          /\ lastExec' = [lastExec EXCEPT ![b] = "none"]
          /\ pc' = [pc EXCEPT ![b] = "resolve"]
          /\ UNCHANGED <<wg, goroutines, exitVars>>
       \/ /\ rows[b] # <<>>
          /\ Fatal("scan")
          /\ UNCHANGED <<rows, emuNo, qrCode, pc, wg, goroutines>>
          /\ UNCHANGED <<info, infoErr, trainNo, date, lastExec>>
       \/ /\ rows[b] = <<>>
          /\ JobDone(b)
          /\ UNCHANGED dbErr
          /\ UNCHANGED <<info, infoErr, trainNo, date, lastExec>>
       \/ /\ dbErr' = "next"
          /\ JobDone(b)
          /\ UNCHANGED <<info, infoErr, trainNo, date, lastExec>>
    /\ UNCHANGED <<emu_qrcode, emu_log, log0, zone, clock, sent>>
    /\ UNCHANGED mainVars

RowsNext(b) ==
    /\ alive /\ pc[b] = "next"
    /\ \/ /\ rows[b] # <<>>
          /\ emuNo' = [emuNo EXCEPT ![b] = Head(rows[b]).emu_no]
          /\ qrCode' = [qrCode EXCEPT ![b] = Head(rows[b]).emu_qrcode]
          /\ rows' = [rows EXCEPT ![b] = Tail(@)]
          /\ info' = [info EXCEPT ![b] = NoInfo]
          /\ infoErr' = [infoErr EXCEPT ![b] = Nil]
          /\ trainNo' = [trainNo EXCEPT ![b] = ""]
          /\ date' = [date EXCEPT ![b] = ""]
          /\ lastExec' = [lastExec EXCEPT ![b] = "none"]
          /\ pc' = [pc EXCEPT ![b] = "delay"]
          /\ UNCHANGED <<wg, goroutines, exitVars>>
       \/ /\ rows[b] # <<>>
          /\ Fatal("scan")
          /\ UNCHANGED <<rows, emuNo, qrCode, pc, wg, goroutines>>
          /\ UNCHANGED <<info, infoErr, trainNo, date, lastExec>>
       \/ /\ rows[b] = <<>>
          /\ JobDone(b)
          /\ UNCHANGED dbErr
          /\ UNCHANGED <<info, infoErr, trainNo, date, lastExec>>
       \/ /\ dbErr' = "next"
          /\ JobDone(b)
          /\ UNCHANGED <<info, infoErr, trainNo, date, lastExec>>
    /\ UNCHANGED <<emu_qrcode, emu_log, log0, zone, clock, sent>>
    /\ UNCHANGED mainVars

\* Line 168: time.Sleep(requestDelay); the clock has moved on by less than a
\* Tick or by a Tick when the goroutine wakes up
Delay(b) ==
    /\ alive /\ pc[b] = "delay"
    /\ clock' \in {clock, clock + Tick}
    /\ pc' = [pc EXCEPT ![b] = "resolve"]
    /\ UNCHANGED <<emu_qrcode, emu_log, log0, zone, wg, goroutines>>
    /\ UNCHANGED <<mainVars, workerVars, exitVars>>

\* Line 169: trainNo, date, _ := b.TrainNo(b, qrCode)
Resolve(b) ==
    /\ alive /\ pc[b] = "resolve"
    /\ \E r \in InfoResults(b) :
          LET ret == TrainNo(b, r, clock)
          IN  /\ info' = [info EXCEPT ![b] = r.info]
              /\ infoErr' = [infoErr EXCEPT ![b] = r.err]
              /\ sent' = [sent EXCEPT ![b] =
                             Append(@, [emu_no |-> emuNo[b], emu_qrcode |-> qrCode[b]])]
              /\ \/ /\ ~ret.panic
                    /\ trainNo' = [trainNo EXCEPT ![b] = ret.trainNo]
                    /\ date' = [date EXCEPT ![b] = ret.date]
                    /\ pc' = [pc EXCEPT ![b] = "exec"]
                    /\ UNCHANGED exitVars
                 \/ /\ ret.panic
                    /\ Panic
                    /\ pc' = [pc EXCEPT ![b] = "panic"]
                    /\ UNCHANGED <<trainNo, date>>
    /\ UNCHANGED <<emu_qrcode, emu_log, log0, zone, clock, wg, goroutines,
                   rows, emuNo, qrCode, lastExec>>
    /\ UNCHANGED mainVars

\* Lines 171-177: if trainNo != "" { db.Exec(INSERT OR IGNORE ...); checkFatal }
SkipsInsertAlways(tn) == TRUE
SkipsInsertNever(tn) == FALSE
SkipsInsert(tn) == tn = ""

Exec(b) ==
    /\ alive /\ pc[b] = "exec"
    /\ LET rec == LogRecord(date[b], emuNo[b], trainNo[b])
       IN  \/ /\ SkipsInsert(trainNo[b])
              /\ lastExec' = [lastExec EXCEPT ![b] = "skipped"]
              /\ pc' = [pc EXCEPT ![b] = "next"]
              /\ UNCHANGED <<emu_log, exitVars>>
           \/ /\ ~SkipsInsert(trainNo[b])
              /\ emu_log' = InsertOrIgnore(emu_log, rec)
              /\ lastExec' = [lastExec EXCEPT ![b] =
                                 IF emu_log' = emu_log THEN "ignored" ELSE "inserted"]
              /\ pc' = [pc EXCEPT ![b] = "next"]
              /\ UNCHANGED exitVars
           \/ /\ ~SkipsInsert(trainNo[b])
              /\ Fatal("exec")
              /\ lastExec' = [lastExec EXCEPT ![b] = "failed"]
              /\ UNCHANGED <<emu_log, pc>>
    /\ UNCHANGED <<emu_qrcode, log0, zone, clock, wg, goroutines,
                   rows, emuNo, qrCode, info, infoErr, trainNo, date, sent>>
    /\ UNCHANGED mainVars

-----------------------------------------------------------------------------

Next ==
    \/ ComputeNextRun
    \/ Spawn
    \/ Wait
    \/ Sleep
    \/ \E b \in Bureaus : QueryRows(b)
    \/ \E b \in Bureaus : RowsNext(b)
    \/ \E b \in Bureaus : Delay(b)
    \/ \E b \in Bureaus : Resolve(b)
    \/ \E b \in Bureaus : Exec(b)

Spec == Init /\ [][Next]_vars

\* The same program in a zone whose UTC offset changes on day 0
InitShiftZone == InitIn(ShiftZones)
SpecShiftZone == InitShiftZone /\ [][Next]_vars

-----------------------------------------------------------------------------
(* Properties *)

LogRows == {emu_log[k] : k \in DOMAIN emu_log}
Scanned(b) == LogRecord(date[b], emuNo[b], trainNo[b])

\* C1: emu_log holds every (date, emu_no, train_no) triple at most once, and
\* a step at db.Exec whose triple is already in the table changes no row.
NoDuplicateRows == \A k, m \in DOMAIN emu_log : emu_log[k] = emu_log[m] => k = m
C1_LogTriplesUnique ==
    /\ []NoDuplicateRows
    /\ [][\A b \in Bureaus :
            (pc[b] = "exec" /\ pc'[b] = "next" /\ Scanned(b) \in LogRows)
                => emu_log' = emu_log]_vars

\* Both goroutines of one round have sent the same triple to db.Exec: one
\* insert added the row, the other was ignored.
C1_Witness ==
    /\ Scanned("H") = Scanned("P")
    /\ {lastExec["H"], lastExec["P"]} = {"inserted", "ignored"}
    /\ Cardinality({k \in DOMAIN emu_log : emu_log[k] = Scanned("H")}) = 1

\* The answer of bureau b that TrainNo has worked on came without error and
\* lacks a required field or has it with a value that is no string.
Resolved(b) == pc[b] \in {"exec", "panic"}
Malformed(b) ==
    /\ infoErr[b] = Nil
    /\ IF b = "H" THEN ~IsString(info[b].trainName)
       ELSE ~IsString(info[b].TrainnoId) \/ ~IsString(info[b].TrainnoDate)

\* C2: on a malformed answer TrainNo fails without a panic: the process and
\* the goroutine keep running and no train number comes back.
C2_MalformedAnswerDoesNotPanic ==
    \A b \in Bureaus :
        (Resolved(b) /\ Malformed(b))
            => (alive /\ exit # "panic" /\ pc[b] = "exec" /\ trainNo[b] = "")

\* C3: when Info fails for a vehicle, that step of iterVehicles writes no row
\* and the goroutine goes on with the rows that are left; the process, the
\* other goroutine and main are not touched.
C3_FailedResolutionIsSkipped ==
    [][\A b \in Bureaus :
        /\ (pc[b] = "resolve" /\ pc'[b] # "resolve" /\ infoErr'[b] # Nil)
              => /\ pc'[b] = "exec" /\ alive' /\ emu_log' = emu_log
                 /\ rows' = rows /\ wg' = wg /\ mainPc' = mainPc
                 /\ \A c \in Bureaus \ {b} : pc'[c] = pc[c]
        /\ (pc[b] = "exec" /\ pc'[b] # "exec" /\ infoErr[b] # Nil)
              => /\ pc'[b] = "next" /\ alive' /\ emu_log' = emu_log
                 /\ rows' = rows /\ wg' = wg /\ mainPc' = mainPc
                 /\ \A c \in Bureaus \ {b} : pc'[c] = pc[c]
      ]_vars

\* A vehicle whose resolution failed has been skipped and the goroutine has
\* rows left to go on with.
C3_Witness ==
    \E b \in Bureaus :
        /\ pc[b] = "next" /\ infoErr[b] # Nil /\ lastExec[b] = "skipped"
        /\ rows[b] # <<>> /\ alive

\* C4: a failure of any storage call of iterVehicles ends the process.
C4_StorageFailureEndsProcess == dbErr # "none" => (~alive /\ exit = "fatal")

\* main has computed nextRun from now in the current round
Computed == round >= 1

\* C5: when now is after the end of today's window, nextRun is 05:00 of the
\* next calendar day.
C5_AfterWindowNextRunIsTomorrowStart ==
    (Computed /\ now > Today(now) + 24 * Hour)
        => (DayOf(nextRun) = DayOf(now) + 1 /\ WallClock(nextRun) = 5 * Hour)

C8_RoundIsBarrier ==
    /\ \A b \in Bureaus : goroutines[b] <= 1 /\ (goroutines[b] = 0 <=> pc[b] = "idle")
    /\ wg = goroutines["H"] + goroutines["P"]
    /\ mainPc \in {"loop", "sleep"} => \A b \in Bureaus : goroutines[b] = 0
    /\ mainPc = "spawn" =>
          \A k \in DOMAIN bureaus : k >= i => goroutines[bureaus[k]] = 0

\* In the second round both goroutines are in the middle of their batches
C8_Witness ==
    /\ round = 2 /\ mainPc = "wait"
    /\ pc["H"] = "resolve" /\ pc["P"] = "resolve"

\* The goroutine of b has finished the step of vehicle emuNo[b]
StepFinished(b) == pc[b] \in {"next", "idle"} /\ emuNo[b] # ""

\* C9 as stated: after the step of a vehicle whose resolution returned no
\* error, the triple is in emu_log, whatever the train number.
C9_ResolvedTripleIsLogged ==
    \A b \in Bureaus :
        (StepFinished(b) /\ infoErr[b] = Nil) => Scanned(b) \in LogRows

\* C9 amended: after the step of a vehicle whose resolution returned no error
\* and a train number other than "", the triple is in emu_log.
C9_ResolvedNonEmptyTripleIsLogged ==
    \A b \in Bureaus :
        (StepFinished(b) /\ infoErr[b] = Nil /\ trainNo[b] # "")
            => Scanned(b) \in LogRows

\* A step has inserted the triple of a successful resolution
C9_Witness ==
    \E b \in Bureaus :
        /\ StepFinished(b) /\ infoErr[b] = Nil /\ trainNo[b] # ""
        /\ lastExec[b] = "inserted" /\ Scanned(b) \in LogRows

\* C10: from an empty emu_log and the one row (CRH1-001, H, PQ0001) in
\* emu_qrcode, a round in which bureau H answers {trainName: G101} ends with
\* exactly the row (today's date, CRH1-001, G101) in emu_log.
SeedRound ==
    /\ emu_qrcode = SeedTable /\ log0 = <<>>
    /\ round = 1 /\ mainPc = "sleep"
    /\ info["H"] = InfoH(String("G101")) /\ infoErr["H"] = Nil
C10_SeedRoundLogsOneRow ==
    SeedRound =>
        emu_log = <<LogRecord(DateNames[DayOf(clock) + 2], "CRH1-001", "G101")>>

C10_Witness ==
    /\ SeedRound
    /\ emu_log = <<LogRecord(DateNames[DayOf(clock) + 2], "CRH1-001", "G101")>>

\* C11: as long as no storage call fails the scheduler never stops: the
\* process ends for no other reason than a failed storage call.
C11_StopsOnlyOnStorageFailure == ~alive => (exit = "fatal" /\ dbErr # "none")

\* The answer in info[b] has the fields TrainNo of bureau b reads, as strings
WellFormed(b) ==
    IF b = "H" THEN IsString(info[b].trainName)
    ELSE IsString(info[b].TrainnoId) /\ IsString(info[b].TrainnoDate)

\* C12: on an answer that came without error and has the expected fields as
\* strings, TrainNo returns (no panic) the train number of the answer as it
\* is: trainName for H, TrainnoId for P; the date is TrainnoDate as it is for
\* P and the local date of the call for H.
C12_ValidAnswerIsReturnedVerbatim ==
    [][\A b \in Bureaus :
        (pc[b] = "resolve" /\ pc'[b] # "resolve" /\ infoErr'[b] = Nil /\ WellFormed(b)')
            => /\ pc'[b] = "exec" /\ alive'
               /\ IF b = "H"
                  THEN /\ trainNo'[b] = info'[b].trainName.str
                       /\ date'[b] = DateNames[DayOf(clock) + 2]
                  ELSE /\ trainNo'[b] = info'[b].TrainnoId.str
                       /\ date'[b] = info'[b].TrainnoDate.str
      ]_vars

\* Both bureaus have just answered with G101; H's date is the local date on
\* the day after the start, P's the date of its answer
C12_Witness ==
    /\ pc["H"] = "exec" /\ infoErr["H"] = Nil /\ trainNo["H"] = "G101"
    /\ DayOf(clock) = 1 /\ date["H"] = "2024-03-10"
    /\ pc["P"] = "exec" /\ infoErr["P"] = Nil /\ trainNo["P"] = "G101"
    /\ date["P"] = "2024-03-09"

Ascending(seq) ==
    \A k, m \in DOMAIN seq : k < m => Rank(seq[k].emu_no) < Rank(seq[m].emu_no)
LastSent(b) == sent[b][Len(sent[b])]
CallsAscending ==
    \A b \in Bureaus :
        /\ Ascending(sent[b])
        /\ pc[b] # "query" => Ascending(sent[b] \o rows[b])
        /\ pc[b] \in {"exec", "panic"} =>
              (sent[b] # <<>> /\ LastSent(b).emu_no = emuNo[b])
        /\ pc[b] \in {"delay", "resolve"} =>
              \A k \in DOMAIN sent[b] : Rank(sent[b][k].emu_no) < Rank(emuNo[b])
C14_VehiclesInAscendingOrder ==
    /\ []CallsAscending
    /\ [][emu_log' # emu_log =>
            \E b \in Bureaus :
                /\ pc[b] = "exec" /\ pc'[b] = "next" /\ sent'[b] = sent[b]
                /\ emu_log'[Len(emu_log')].emuNo = LastSent(b).emu_no]_vars

\* The goroutine of H calls TrainNo for its second vehicle after the row of
\* its first has been inserted
C14_Witness ==
    /\ round = 1 /\ log0 = <<>> /\ pc["P"] = "query"
    /\ pc["H"] = "exec" /\ Len(sent["H"]) = 2
    /\ sent["H"][1].emu_no = "CRH1-001" /\ sent["H"][2].emu_no = "CRH1-002"
    /\ \E k \in DOMAIN emu_log : emu_log[k].emuNo = "CRH1-001"

\* The vehicles that have a QR code of bureau b in emu_qrcode, the code among
\* them that was inserted first, and: the run of iterVehicles that main
\* started last for b has logged "job done"
Vehicles(b) == {emu_qrcode[k].emu_no : k \in {m \in DOMAIN emu_qrcode :
                                                emu_qrcode[m].emu_bureau = b}}
IsFirstCode(b, e, q) ==
    \E k \in DOMAIN emu_qrcode :
        /\ emu_qrcode[k] = QrRow(e, b, q)
        /\ \A m \in 1..(k - 1) :
              ~(emu_qrcode[m].emu_bureau = b /\ emu_qrcode[m].emu_no = e)
BureauIndex(b) == CHOOSE k \in DOMAIN bureaus : bureaus[k] = b
JobIsDone(b) ==
    /\ pc[b] = "idle"
    /\ round >= 2 \/ (round = 1 /\ (mainPc # "spawn" \/ BureauIndex(b) < i))

\* Every call of TrainNo is for a vehicle of the bureau with the first QR
\* code of that vehicle and bureau, and no vehicle is called for twice.
CallsUseFirstCode ==
    \A b \in Bureaus :
        /\ \A k \in DOMAIN sent[b] :
              /\ sent[b][k].emu_no \in Vehicles(b)
              /\ IsFirstCode(b, sent[b][k].emu_no, sent[b][k].emu_qrcode)
        /\ \A k, m \in DOMAIN sent[b] : sent[b][k].emu_no = sent[b][m].emu_no => k = m

\* C15: a run of iterVehicles calls TrainNo exactly once for every vehicle
\* that has a QR code of the bureau, with the first code of the vehicle.
C15_EveryVehicleResolvedOnce ==
    /\ CallsUseFirstCode
    /\ \A b \in Bureaus :
          JobIsDone(b) => {sent[b][k].emu_no : k \in DOMAIN sent[b]} = Vehicles(b)

\* C16: every call of TrainNo comes after a time.Sleep(requestDelay) of its
\* own in the same goroutine: a goroutine gets to the call from the sleep
\* only, and a call leaves it behind the call, before the next rows.Next().
C16_DelayBeforeEveryCall ==
    /\ [][\A b \in Bureaus :
            (pc'[b] = "resolve" /\ pc[b] # "resolve") => pc[b] = "delay"]_vars
    /\ [][\A b \in Bureaus :
            Len(sent'[b]) > Len(sent[b])
                => /\ pc[b] = "resolve" /\ pc'[b] \in {"exec", "panic"}
                   /\ Len(sent'[b]) = Len(sent[b]) + 1]_vars

\* In the second round a goroutine has made its second call
C16_Witness ==
    \E b \in Bureaus : round = 2 /\ Len(sent[b]) = 2 /\ pc[b] = "exec"

\* C17: no step of the program adds, removes or changes a row of the
\* emu_qrcode table: the program only reads it.
C17_QrcodeTableIsReadOnly ==
    [][emu_qrcode' = emu_qrcode]_vars

\* Both goroutines have read their rows of a table of four and a row has
\* been written to emu_log, with all four rows still in emu_qrcode
C17_Witness ==
    /\ Len(emu_qrcode) = 4
    /\ \A b \in Bureaus : pc[b] \notin {"idle", "query"}
    /\ Len(emu_log) > Len(log0)

\* C18 as stated: every nextRun main computes, and the start of every round
\* after the first, is at a local time of day in [05:00, 24:00).
InWindow(t) == WallClock(t) >= startTime /\ WallClock(t) < endTime
AddedBy(b, rec) ==
    /\ pc[b] = "exec" /\ pc'[b] = "next"
    /\ rec = LogRecord(date[b], emuNo[b], trainNo[b])
    /\ infoErr[b] = Nil /\ trainNo[b] # ""
    /\ sent[b] # <<>> /\ sent'[b] = sent[b]
    /\ LastSent(b) = [emu_no |-> emuNo[b], emu_qrcode |-> qrCode[b]]
    /\ IsFirstCode(b, emuNo[b], qrCode[b])
    /\ IF b = "H"
       THEN /\ trainNo[b] = info[b].trainName.str
            /\ \E t \in now..clock : date[b] = DateNames[DayOf(t) + 2]
       ELSE /\ trainNo[b] = info[b].TrainnoId.str
            /\ date[b] = info[b].TrainnoDate.str
C19_LogGrowsOnlyByResolutions ==
    [][/\ Len(emu_log') >= Len(emu_log)
       /\ SubSeq(emu_log', 1, Len(emu_log)) = emu_log
       /\ emu_log' # emu_log =>
             /\ Len(emu_log') = Len(emu_log) + 1
             /\ \E b \in Bureaus : AddedBy(b, emu_log'[Len(emu_log')])
       /\ \A b \in Bureaus :
             (pc[b] = "exec" /\ pc'[b] # "exec" /\ (infoErr[b] # Nil \/ trainNo[b] = ""))
                 => emu_log' = emu_log]_vars

\* The goroutine of H has added a row, the one of P has skipped a vehicle
\* whose call failed, and every row of the log before the round is in place
C19_Witness ==
    /\ lastExec["H"] = "inserted" /\ lastExec["P"] = "skipped"
    /\ infoErr["P"] # Nil /\ pc["P"] = "next"
    /\ log0 # <<>> /\ Len(emu_log) > Len(log0)
    /\ SubSeq(emu_log, 1, Len(log0)) = log0

====
